---------------------------- MODULE Spec2Model ----------------------------
(***************************************************************************)
(* Model of the package lifecycle of instrumentation-infra: the package    *)
(* recipes of infra/packages/gperftools.py and infra/packages/llvm, driven *)
(* by the dependency resolver and the four-stage executor (fetch, build,   *)
(* install, configure) over on-disk state probes and a shared context.     *)
(***************************************************************************)
EXTENDS Naturals, Sequences, FiniteSets, TLC

VARIABLES
    roots,          \* the packages requested for the run, in request order
    preinstalled,   \* what `llvm-config --version` prints on this machine ("none": it fails)
    run,            \* number of the current pipeline run
    force,          \* force flags of the current run, a subset of {"fetch","build","install"}
    pc,             \* position of the executor
    order,          \* the resolved processing order of the current run
    idx,            \* index in order of the package being processed
    disk,           \* set of <<package directory, relative path>> that exist
    cwd,            \* current directory: [dir |-> package directory, sub |-> path below it]
    ctx,            \* the shared context: program names and flag lists
    log,            \* invocations of the current run, in order
    failed,         \* [pkg, stage] of the stage that stopped the run, or NoFailure
    failures,       \* number of stage failures injected so far
    plain,          \* TRUE while no run so far had a force flag or a failure
    last,           \* what the latest executor step did: probes, stage start, commands
    heap,           \* the Python lists that patch lists refer to: list name -> contents
    objs            \* the LLVM objects constructed so far, each with the list it refers to

vars == <<roots, preinstalled, run, force, pc, order, idx, disk, cwd, ctx, log,
          failed, failures, plain, last, heap, objs>>

(***************************************************************************)
(* Bounds                                                                  *)
(***************************************************************************)
MaxRuns == 2
MaxFailures == 1

None == "None"
NoFailure == [pkg |-> "", stage |-> ""]

(***************************************************************************)
(* Package instances (constructors)                                        *)
(***************************************************************************)
LibUnwind(version, patches) ==
    [kind |-> "LibUnwind", version |-> version, patches |-> patches]

Gperftools(commit, libunwind_version, patches) ==
    [kind |-> "Gperftools", commit |-> commit,
     libunwind |-> LibUnwind(libunwind_version, <<>>), patches |-> patches]

LLVM(version, compiler_rt, commit, lld, patches, build_flags) ==
    [kind |-> "LLVM", version |-> version, compiler_rt |-> compiler_rt,
     lld |-> lld, build_flags |-> build_flags, commit |-> commit,
     patches |-> IF compiler_rt /\ version = "4.0.0"
                 THEN Append(patches, "compiler-rt-typefix")
                 ELSE patches]

LLVMBinDist(version, target, bin_suffix) ==
    [kind |-> "LLVMBinDist", version |-> version, target |-> target,
     bin_suffix |-> bin_suffix]

\* Packages of infra/packages/gnu.py, cmake.py and ninja.py (recipes outside
\* the two files modelled here): a name and a version, no dependencies.
Tool(name, version) == [kind |-> "Tool", name |-> name, version |-> version]

AutoMakeDefault == Tool("automake", "1.16.5")
LLVMbinutils == Tool("binutils", "2.38-gold")

\* Synthetic packages with declared edges only, for resolver scenarios.
Node(name) == [kind |-> "Node", name |-> name]

(***************************************************************************)
(* ident()                                                                 *)
(***************************************************************************)
LibUnwindIdent(p) == "libunwind-" \o p.version

GperftoolsIdent(p) == "gperftools-" \o p.commit

LLVMIdent(p) == "llvm-" \o p.version \o (IF p.lld THEN "-lld" ELSE "")

LLVMBinDistIdent(p) == "llvmbin-" \o p.version

ToolIdent(p) == p.name \o "-" \o p.version

ident(p) ==
    CASE p.kind = "LibUnwind" -> LibUnwindIdent(p)
      [] p.kind = "Gperftools" -> GperftoolsIdent(p)
      [] p.kind = "LLVM" -> LLVMIdent(p)
      [] p.kind = "LLVMBinDist" -> LLVMBinDistIdent(p)
      [] p.kind = "Tool" -> ToolIdent(p)
      [] p.kind = "Node" -> p.name

\* Package.path(ctx, *args): the package directory, named by ident(), below
\* the packages root, joined with a subpath.
path(p, sub) == "/build/packages/" \o ident(p) \o (IF sub = "" THEN "" ELSE "/" \o sub)

(***************************************************************************)
(* dependencies()                                                          *)
(***************************************************************************)
\* variant that forgets to declare the libunwind instance
GperftoolsDependenciesNoUnwind(p) == <<AutoMakeDefault>>

GperftoolsDependencies(p) == <<AutoMakeDefault, p.libunwind>>

\* variant that does not yield self.binutils
LLVMDependenciesNoBinutils(p) ==
    <<Tool("bash", "5.1.16"), Tool("coreutils", "9.1"),
      Tool("make", "4.3"), AutoMakeDefault, Tool("cmake", "3.28.6"),
      Tool("ninja", "1.8.2")>>

LLVMDependencies(p) ==
    <<Tool("bash", "5.1.16"), Tool("coreutils", "9.1"), LLVMbinutils,
      Tool("make", "4.3"), AutoMakeDefault, Tool("cmake", "3.28.6"),
      Tool("ninja", "1.8.2")>>

NodeDependencies(p) ==
    CASE p.name = "A" -> <<>>
      [] p.name = "B" -> <<Node("A")>>
      [] p.name = "C" -> <<Node("A"), Node("B")>>
      [] p.name = "P" -> <<Node("Q")>>
      [] p.name = "Q" -> <<Node("P")>>
      [] p.name = "X" -> <<Node("A"), Node("Y")>>
      [] p.name = "Y" -> <<Node("Z")>>
      [] p.name = "Z" -> <<Node("X")>>
      [] OTHER -> <<>>

dependencies(p) ==
    CASE p.kind = "Gperftools" -> GperftoolsDependencies(p)
      [] p.kind = "LLVM" -> LLVMDependencies(p)
      [] p.kind = "Node" -> NodeDependencies(p)
      [] OTHER -> <<>>

(***************************************************************************)
(* DependencyResolver: depth-first, dependencies first, deduplicated by    *)
(* identifier; a package met again while on the traversal path is a cycle. *)
(***************************************************************************)
RECURSIVE Visit(_, _), VisitAll(_, _)

\* variant that takes a package on the traversal path for one already emitted
VisitNoCycleCheck(p, st) ==
    IF ident(p) \in st.onpath \cup st.seen THEN st
    ELSE LET down == VisitAll(dependencies(p),
                              [st EXCEPT !.onpath = @ \cup {ident(p)}])
         IN [order |-> Append(down.order, p),
             seen |-> down.seen \cup {ident(p)},
             onpath |-> st.onpath,
             cycle |-> FALSE]

\* st = [order, seen, onpath, cycle]
Visit(p, st) ==
    IF st.cycle THEN st
    ELSE IF ident(p) \in st.onpath THEN [st EXCEPT !.cycle = TRUE]
    ELSE IF ident(p) \in st.seen THEN st
    ELSE LET down == VisitAll(dependencies(p),
                              [st EXCEPT !.onpath = @ \cup {ident(p)}])
         IN IF down.cycle THEN down
            ELSE [order |-> Append(down.order, p),
                  seen |-> down.seen \cup {ident(p)},
                  onpath |-> st.onpath,
                  cycle |-> FALSE]

VisitAll(ps, st) ==
    IF ps = <<>> THEN st
    ELSE VisitAll(Tail(ps), Visit(Head(ps), st))

Resolve(rs) ==
    VisitAll(rs, [order |-> <<>>, seen |-> {}, onpath |-> {}, cycle |-> FALSE])


(***************************************************************************)
(* File system: relative paths resolve against the current directory.      *)
(***************************************************************************)
Join(sub, rel) == IF sub = "" THEN rel ELSE sub \o "/" \o rel

\* os.path.exists(rel) with current directory c
Exists(d, c, rel) == <<c.dir, Join(c.sub, rel)>> \in d

\* the paths `rels`, relative to the current directory c
At(c, rels) == {<<c.dir, Join(c.sub, r)>> : r \in rels}

\* Package.goto_rootdir(ctx): the package directory, created if absent
goto_rootdir(p) == [dir |-> ident(p), sub |-> ""]

\* os.chdir(rel)
chdir(c, rel) == [c EXCEPT !.sub = Join(@, rel)]

\* os.chdir(".."): the directory above c (the package directory has none)
DirNames == {"src", "obj", "install", "bin", "llvm"}

Above(sub) == {s \in {"", "src", "obj", "install"} : \E n \in DirNames : Join(s, n) = sub}

updir(c) == IF Above(c.sub) = {} THEN c
            ELSE [c EXCEPT !.sub = CHOOSE s \in Above(c.sub) : TRUE]

\* One event inside a stage: a patch handed to apply_patch or a command run,
\* with the current directory it happens in and the one it leaves.
Ev(op, what, at, after) == [op |-> op, what |-> what, at |-> at, after |-> after]

\* the commands cmds, run one after the other in directory c; a failing
\* build stops at its first command
Runs(cmds, c, outcome) ==
    IF outcome = "error" /\ cmds # <<>>
    THEN <<Ev("run", cmds[1], c, c)>>
    ELSE [i \in 1..Len(cmds) |-> Ev("run", cmds[i], c, c)]

\* A stage returns the disk and current directory it leaves, whether it
\* returned normally (ok) or raised, and the patches it handed to apply_patch.
Result(d, c, ok, applied) == [disk |-> d, cwd |-> c, ok |-> ok, applied |-> applied]

(***************************************************************************)
(* LibUnwind                                                               *)
(***************************************************************************)
LibUnwindIsFetched(p, d, c) == Exists(d, c, "src")

LibUnwindFetch(p, d, c, outcome) ==
    IF outcome = "ok"
    THEN Result(d \cup At(c, {"src"}), c, TRUE, <<>>)
    ELSE Result(d, c, FALSE, <<>>)

LibUnwindIsBuilt(p, d, c) == Exists(d, c, "obj/src/.libs/libunwind.so")

LibUnwindBuild(p, d, c, outcome) ==
    LET root == goto_rootdir(p)
        obj == chdir(root, "obj")
    IN IF ~Exists(d, root, "src")
       THEN Result(d, c, FALSE, <<>>)
       ELSE CASE outcome = "ok" ->
                   Result(d \cup At(root, {"obj", "obj/Makefile",
                                           "obj/src/.libs/libunwind.so"}),
                          obj, TRUE, p.patches)
              [] outcome = "noartifact" ->
                   Result(d \cup At(root, {"obj", "obj/Makefile"}), obj, TRUE, p.patches)
              [] OTHER ->
                   Result(d \cup At(root, {"obj"}), obj, FALSE, p.patches)

LibUnwindIsInstalled(p, d, c) == Exists(d, c, "install/lib/libunwind.so")

LibUnwindInstall(p, d, c, outcome) ==
    IF ~Exists(d, c, "obj")
    THEN Result(d, c, FALSE, <<>>)
    ELSE CASE outcome = "ok" ->
                Result(d \cup At(c, {"install", "install/lib/libunwind.so"}),
                       chdir(c, "obj"), TRUE, <<>>)
           [] outcome = "noartifact" ->
                Result(d \cup At(c, {"install"}), chdir(c, "obj"), TRUE, <<>>)
           [] OTHER -> Result(d, chdir(c, "obj"), FALSE, <<>>)

LibUnwindConfigure(p, x) ==
    [x EXCEPT !.ldflags = @ \o <<"-L" \o path(p, "install/lib"), "-lunwind">>]

(***************************************************************************)
(* Gperftools                                                              *)
(***************************************************************************)
GperftoolsIsFetched(p, d, c) == Exists(d, c, "src")

\* git clone refuses an existing non-empty src
GperftoolsFetch(p, d, c, outcome) ==
    IF outcome = "ok" /\ ~Exists(d, c, "src")
    THEN Result(d \cup At(c, {"src"}), chdir(c, "src"), TRUE, <<>>)
    ELSE Result(d, c, FALSE, <<>>)

GperftoolsIsBuilt(p, d, c) == Exists(d, c, "obj/.libs/libtcmalloc.so")

GperftoolsBuild(p, d, c, outcome) ==
    LET root == goto_rootdir(p)
        obj == chdir(root, "obj")
        reconf == At(root, {"src/configure", "src/INSTALL"})
    IN IF ~Exists(d, root, "src")
       THEN Result(d, c, FALSE, <<>>)
       ELSE CASE outcome = "ok" ->
                   Result(d \cup reconf
                            \cup At(root, {"obj", "obj/Makefile",
                                           "obj/.libs/libtcmalloc.so"}),
                          obj, TRUE, p.patches)
              [] outcome = "noartifact" ->
                   Result(d \cup reconf \cup At(root, {"obj", "obj/Makefile"}),
                          obj, TRUE, p.patches)
              [] OTHER ->
                   Result(d \cup reconf \cup At(root, {"obj"}), obj, FALSE, p.patches)

GperftoolsIsInstalled(p, d, c) == Exists(d, c, "install/lib/libtcmalloc.so")

GperftoolsInstall(p, d, c, outcome) ==
    IF ~Exists(d, c, "obj")
    THEN Result(d, c, FALSE, <<>>)
    ELSE CASE outcome = "ok" ->
                Result(d \cup At(c, {"install", "install/lib/libtcmalloc.so"}),
                       chdir(c, "obj"), TRUE, <<>>)
           [] outcome = "noartifact" ->
                Result(d \cup At(c, {"install"}), chdir(c, "obj"), TRUE, <<>>)
           [] OTHER -> Result(d, chdir(c, "obj"), FALSE, <<>>)

GperftoolsCflags(p) ==
    <<"-fno-builtin-malloc", "-fno-builtin-calloc", "-fno-builtin-realloc",
      "-fno-builtin-free", "-I", path(p, "install/include/gperftools")>>

GperftoolsConfigure(p, x) ==
    LET y == LibUnwindConfigure(p.libunwind, x)
    IN [y EXCEPT !.cflags = @ \o GperftoolsCflags(p),
                 !.cxxflags = @ \o GperftoolsCflags(p),
                 !.ldflags = @ \o <<"-L" \o path(p, "install/lib"),
                                    "-ltcmalloc", "-lpthread">>]

(***************************************************************************)
(* LLVM                                                                    *)
(***************************************************************************)
LLVMIsFetched(p, d, c) == Exists(d, c, "src")

\* With a commit: git clone into src (refused when src exists), chdir src,
\* checkout.  Without: the release tarballs are unpacked and moved to src.
LLVMFetch(p, d, c, outcome) ==
    IF p.commit # None
    THEN IF outcome = "ok" /\ ~Exists(d, c, "src")
         THEN Result(d \cup At(c, {"src"}), chdir(c, "src"), TRUE, <<>>)
         ELSE Result(d, c, FALSE, <<>>)
    ELSE IF outcome = "ok"
         THEN Result(d \cup At(c, {"src"}), c, TRUE, <<>>)
         ELSE Result(d, c, FALSE, <<>>)

LLVMIsBuilt(p, d, c) == Exists(d, c, "obj/bin/llvm-config")

\* chdir src; apply the patches; chdir ..; makedirs obj; chdir obj; cmake
LLVMBuild(p, d, c, outcome) ==
    IF ~Exists(d, c, "src")
    THEN Result(d, c, FALSE, <<>>)
    ELSE CASE outcome = "ok" ->
                Result(d \cup At(c, {"obj", "obj/bin/llvm-config"}),
                       chdir(c, "obj"), TRUE, p.patches)
           [] outcome = "noartifact" ->
                Result(d \cup At(c, {"obj"}), chdir(c, "obj"), TRUE, p.patches)
           [] OTHER ->
                Result(d \cup At(c, {"obj"}), chdir(c, "obj"), FALSE, p.patches)

LLVMInstall(p, d, c, outcome) ==
    IF ~Exists(d, c, "obj")
    THEN Result(d, c, FALSE, <<>>)
    ELSE CASE outcome = "ok" ->
                Result(d \cup At(c, {"install", "install/bin/llvm-config"}),
                       chdir(c, "obj"), TRUE, <<>>)
           [] outcome = "noartifact" ->
                Result(d \cup At(c, {"install"}), chdir(c, "obj"), TRUE, <<>>)
           [] OTHER -> Result(d, chdir(c, "obj"), FALSE, <<>>)

\* variant that accepts a preinstalled toolchain whatever the patch list
LLVMIsInstalledAnyPatches(p, d, c, pre) ==
    \/ pre # "none" /\ pre = p.version
    \/ Exists(d, c, "install/bin/llvm-config")

\* pre: the output of `llvm-config --version`, "none" when it fails
LLVMIsInstalled(p, d, c, pre) ==
    \/ p.patches = <<>> /\ pre # "none" /\ pre = p.version
    \/ Exists(d, c, "install/bin/llvm-config")

LLVMConfigure(p, x) ==
    [x EXCEPT !.cc = "clang", !.cxx = "clang++", !.ar = "llvm-ar",
              !.nm = "llvm-nm", !.ranlib = "llvm-ranlib",
              !.cflags = <<>>, !.cxxflags = <<>>, !.ldflags = <<>>]

(***************************************************************************)
(* LLVMBinDist                                                             *)
(***************************************************************************)
LLVMBinDistIsFetched(p, d, c) == Exists(d, c, "src")

LLVMBinDistFetch(p, d, c, outcome) ==
    IF outcome = "ok"
    THEN Result(d \cup At(c, {"src"}), c, TRUE, <<>>)
    ELSE Result(d, c, FALSE, <<>>)

LLVMBinDistIsBuilt(p, d, c) == TRUE

LLVMBinDistBuild(p, d, c, outcome) == Result(d, c, TRUE, <<>>)

LLVMBinDistIsInstalled(p, d, c) == Exists(d, c, "install")

\* shutil.move("src", "install"): a rename, or a move into install when that
\* directory exists; then chdir install/bin and the suffixed symlinks.
LLVMBinDistInstall(p, d, c, outcome) ==
    IF ~Exists(d, c, "src")
    THEN Result(d, c, FALSE, <<>>)
    ELSE LET moved == IF Exists(d, c, "install")
                      THEN (d \ At(c, {"src"})) \cup At(c, {"install/src"})
                      ELSE (d \ At(c, {"src"})) \cup At(c, {"install", "install/bin"})
             links == IF p.bin_suffix # ""
                      THEN At(c, {"install/bin/clang" \o p.bin_suffix})
                      ELSE {}
         IN Result(moved \cup links, chdir(c, "install/bin"), TRUE, <<>>)

LLVMBinDistConfigure(p, x) == x

(***************************************************************************)
(* Tool and Node packages: one marker per stage, no flags for a Tool, one  *)
(* link flag for a Node.                                                   *)
(***************************************************************************)
PlainIsFetched(p, d, c) == Exists(d, c, "src")

PlainFetch(p, d, c, outcome) ==
    IF outcome = "ok"
    THEN Result(d \cup At(c, {"src"}), c, TRUE, <<>>)
    ELSE Result(d, c, FALSE, <<>>)

PlainIsBuilt(p, d, c) == Exists(d, c, "obj/built")

PlainBuild(p, d, c, outcome) ==
    IF ~Exists(d, c, "src")
    THEN Result(d, c, FALSE, <<>>)
    ELSE CASE outcome = "ok" ->
                Result(d \cup At(c, {"obj", "obj/built"}), chdir(c, "obj"), TRUE, <<>>)
           [] outcome = "noartifact" ->
                Result(d \cup At(c, {"obj"}), chdir(c, "obj"), TRUE, <<>>)
           [] OTHER -> Result(d \cup At(c, {"obj"}), chdir(c, "obj"), FALSE, <<>>)

PlainIsInstalled(p, d, c) == Exists(d, c, "install/installed")

PlainInstall(p, d, c, outcome) ==
    IF ~Exists(d, c, "obj")
    THEN Result(d, c, FALSE, <<>>)
    ELSE CASE outcome = "ok" ->
                Result(d \cup At(c, {"install", "install/installed"}),
                       chdir(c, "obj"), TRUE, <<>>)
           [] outcome = "noartifact" ->
                Result(d \cup At(c, {"install"}), chdir(c, "obj"), TRUE, <<>>)
           [] OTHER -> Result(d, chdir(c, "obj"), FALSE, <<>>)

NodeConfigure(p, x) == [x EXCEPT !.ldflags = Append(@, "-l" \o p.name)]

(***************************************************************************)
(* What build does, step by step: the patch loop, then the commands        *)
(***************************************************************************)
\* A patch given as a tuple (directory, path) is written as one string; these
\* are the tuples in use and the directory each names.
TuplePatch == "('llvm', 'patches/LLVM-uniqueptr-fix.patch')"

IsTuple(ref) == ref \in {TuplePatch}

patch_dir(ref) == "llvm"

\* LibUnwind._apply_patches and Gperftools._apply_patches: chdir to
\* path(src), every patch applied there, chdir to the package directory
ApplyPatches(p) ==
    LET src == chdir(goto_rootdir(p), "src")
    IN [i \in 1..Len(p.patches) |-> Ev("patch", p.patches[i], src, src)]
       \o <<Ev("endloop", "", src, goto_rootdir(p))>>

LibUnwindBuildTrace(p, d, c, outcome) ==
    LET root == goto_rootdir(p)
        obj == chdir(root, "obj")
    IN IF ~Exists(d, root, "src") THEN <<>>
       ELSE ApplyPatches(p)
            \o Runs((IF Exists(d, root, "obj/Makefile") THEN <<>>
                     ELSE <<"../src/configure">>) \o <<"make">>, obj, outcome)

GperftoolsBuildTrace(p, d, c, outcome) ==
    LET root == goto_rootdir(p)
        src == chdir(root, "src")
        obj == chdir(root, "obj")
        reconf == IF Exists(d, root, "src/configure") /\ Exists(d, root, "src/INSTALL")
                  THEN <<>>
                  ELSE <<Ev("run", "autoreconf", src, root)>>
    IN IF ~Exists(d, root, "src") THEN <<>>
       ELSE ApplyPatches(p) \o reconf
            \o Runs((IF Exists(d, root, "obj/Makefile") THEN <<>>
                     ELSE <<"../src/configure">>) \o <<"make">>, obj, outcome)

\* variant that never returns to original_dir after a tuple patch
LLVMPatchLoopNoRestore(p, src) ==
    [i \in 1..Len(p.patches) |->
       IF \E j \in 1..i : IsTuple(p.patches[j])
       THEN Ev("patch", p.patches[i], chdir(src, patch_dir(p.patches[i])),
               chdir(src, patch_dir(p.patches[i])))
       ELSE Ev("patch", p.patches[i], src, src)]

\* the patch loop of LLVM.build, entered in directory src: a tuple patch is
\* applied in its directory and the loop returns to original_dir
LLVMPatchLoop(p, src) ==
    [i \in 1..Len(p.patches) |->
       IF IsTuple(p.patches[i])
       THEN Ev("patch", p.patches[i], chdir(src, patch_dir(p.patches[i])), src)
       ELSE Ev("patch", p.patches[i], src, src)]

\* variant that configures with cmake before the patch loop
LLVMBuildTraceCmakeFirst(p, d, c, outcome) ==
    LET src == chdir(c, "src")
        obj == chdir(c, "obj")
    IN IF ~Exists(d, c, "src") THEN <<>>
       ELSE <<Ev("run", "cmake", obj, obj)>>
            \o LLVMPatchLoop(p, src)
            \o <<Ev("endloop", "", src, updir(src))>>
            \o Runs(<<"cmake --build">>, obj, outcome)

\* variant that patches only a tree that was never built
LLVMBuildTraceFreshOnly(p, d, c, outcome) ==
    LET src == chdir(c, "src")
        obj == chdir(updir(src), "obj")
    IN IF ~Exists(d, c, "src") THEN <<>>
       ELSE (IF Exists(d, c, "obj") THEN <<>> ELSE LLVMPatchLoop(p, src))
            \o <<Ev("endloop", "", src, updir(src))>>
            \o Runs(<<"cmake", "cmake --build">>, obj, outcome)

\* chdir src; the patch loop; chdir ..; makedirs obj; chdir obj; cmake
LLVMBuildTrace(p, d, c, outcome) ==
    LET src == chdir(c, "src")
        loop == LLVMPatchLoop(p, src)
        end == IF loop = <<>> THEN src ELSE loop[Len(loop)].after
        obj == chdir(updir(end), "obj")
    IN IF ~Exists(d, c, "src") THEN <<>>
       ELSE loop
            \o <<Ev("endloop", "", end, updir(end))>>
            \o Runs(<<"cmake", "cmake --build">>, obj, outcome)

PlainBuildTrace(p, d, c, outcome) ==
    IF ~Exists(d, c, "src") THEN <<>> ELSE Runs(<<"make">>, chdir(c, "obj"), outcome)

build_trace(p, d, c, outcome) ==
    CASE p.kind = "LibUnwind" -> LibUnwindBuildTrace(p, d, c, outcome)
      [] p.kind = "Gperftools" -> GperftoolsBuildTrace(p, d, c, outcome)
      [] p.kind = "LLVM" -> LLVMBuildTrace(p, d, c, outcome)
      [] p.kind = "LLVMBinDist" -> <<>>
      [] OTHER -> PlainBuildTrace(p, d, c, outcome)

(***************************************************************************)
(* Dispatch over the package variants                                      *)
(***************************************************************************)
is_fetched(p, d, c) ==
    CASE p.kind = "LibUnwind" -> LibUnwindIsFetched(p, d, c)
      [] p.kind = "Gperftools" -> GperftoolsIsFetched(p, d, c)
      [] p.kind = "LLVM" -> LLVMIsFetched(p, d, c)
      [] p.kind = "LLVMBinDist" -> LLVMBinDistIsFetched(p, d, c)
      [] OTHER -> PlainIsFetched(p, d, c)

is_built(p, d, c) ==
    CASE p.kind = "LibUnwind" -> LibUnwindIsBuilt(p, d, c)
      [] p.kind = "Gperftools" -> GperftoolsIsBuilt(p, d, c)
      [] p.kind = "LLVM" -> LLVMIsBuilt(p, d, c)
      [] p.kind = "LLVMBinDist" -> LLVMBinDistIsBuilt(p, d, c)
      [] OTHER -> PlainIsBuilt(p, d, c)

is_installed(p, d, c, pre) ==
    CASE p.kind = "LibUnwind" -> LibUnwindIsInstalled(p, d, c)
      [] p.kind = "Gperftools" -> GperftoolsIsInstalled(p, d, c)
      [] p.kind = "LLVM" -> LLVMIsInstalled(p, d, c, pre)
      [] p.kind = "LLVMBinDist" -> LLVMBinDistIsInstalled(p, d, c)
      [] OTHER -> PlainIsInstalled(p, d, c)

fetch(p, d, c, outcome) ==
    CASE p.kind = "LibUnwind" -> LibUnwindFetch(p, d, c, outcome)
      [] p.kind = "Gperftools" -> GperftoolsFetch(p, d, c, outcome)
      [] p.kind = "LLVM" -> LLVMFetch(p, d, c, outcome)
      [] p.kind = "LLVMBinDist" -> LLVMBinDistFetch(p, d, c, outcome)
      [] OTHER -> PlainFetch(p, d, c, outcome)

build(p, d, c, outcome) ==
    CASE p.kind = "LibUnwind" -> LibUnwindBuild(p, d, c, outcome)
      [] p.kind = "Gperftools" -> GperftoolsBuild(p, d, c, outcome)
      [] p.kind = "LLVM" -> LLVMBuild(p, d, c, outcome)
      [] p.kind = "LLVMBinDist" -> LLVMBinDistBuild(p, d, c, outcome)
      [] OTHER -> PlainBuild(p, d, c, outcome)

install(p, d, c, outcome) ==
    CASE p.kind = "LibUnwind" -> LibUnwindInstall(p, d, c, outcome)
      [] p.kind = "Gperftools" -> GperftoolsInstall(p, d, c, outcome)
      [] p.kind = "LLVM" -> LLVMInstall(p, d, c, outcome)
      [] p.kind = "LLVMBinDist" -> LLVMBinDistInstall(p, d, c, outcome)
      [] OTHER -> PlainInstall(p, d, c, outcome)

configure(p, x) ==
    CASE p.kind = "LibUnwind" -> LibUnwindConfigure(p, x)
      [] p.kind = "Gperftools" -> GperftoolsConfigure(p, x)
      [] p.kind = "LLVM" -> LLVMConfigure(p, x)
      [] p.kind = "LLVMBinDist" -> LLVMBinDistConfigure(p, x)
      [] p.kind = "Node" -> NodeConfigure(p, x)
      [] OTHER -> x

\* The configure methods entered by one call of p.configure, in call order.
ConfigureCalls(p) ==
    IF p.kind = "Gperftools" THEN <<ident(p), ident(p.libunwind)>> ELSE <<ident(p)>>

(***************************************************************************)
(* Inputs of a run                                                         *)
(***************************************************************************)
G1 == Gperftools("c1", "1.4-rc1", <<>>)
G2 == Gperftools("c2", "1.4-rc1", <<"fix">>)
U14 == LibUnwind("1.4-rc1", <<>>)
U14p == LibUnwind("1.4-rc1", <<"p">>)
L4rt == LLVM("4.0.0", TRUE, None, FALSE, <<>>, <<>>)
L4 == LLVM("4.0.0", FALSE, None, FALSE, <<>>, <<>>)
L7 == LLVM("7.0.0", FALSE, "abc123", TRUE, <<TuplePatch, "gold-plugins">>, <<"-DX=1">>)
BD == LLVMBinDist("7.0.0", "x86_64-linux-gnu-ubuntu-16.04", "-7")

RootChoices ==
    { <<G1>>, <<BD>>, <<U14, G1>>, <<U14p, G1>>, <<G1, L4>>, <<L4rt, L4>>,
      <<L7, G2>>, <<Node("C"), Node("B")>>, <<Node("P")>>,
      <<Node("C"), Node("X")>> }

Preinstalled == {"none", "4.0.0", "7.0.0"}

ForceChoices == SUBSET {"fetch", "build", "install"}

Outcomes(stage) == IF stage = "fetch" THEN {"ok", "error"}
                   ELSE {"ok", "error", "noartifact"}

\* Context as created for a run
InitCtx == [cc |-> "cc", cxx |-> "c++", ar |-> "ar", nm |-> "nm",
            ranlib |-> "ranlib", cflags |-> <<>>, cxxflags |-> <<>>,
            ldflags |-> <<>>]

LaunchDir == [dir |-> "", sub |-> ""]

Entry(pkg, op, arg) == [pkg |-> pkg, op |-> op, arg |-> arg]

\* the log after a stage `op` of p that ended with `status` and handed
\* `applied` to apply_patch
Logged(l, p, op, status, applied) ==
    l \o <<Entry(ident(p), op, status)>>
      \o [i \in 1..Len(applied) |-> Entry(ident(p), "patch", applied[i])]

(***************************************************************************)
(* LifecycleExecutor                                                       *)
(***************************************************************************)
\* variant that positions only on entering a package
PositionOnEntry(p, c) == IF c.dir = ident(p) THEN c ELSE goto_rootdir(p)

(***************************************************************************)
(* Construction of LLVM packages: lists are shared by reference            *)
(***************************************************************************)
MaxCtor == 3

CtorVersions == {"4.0.0", "7.0.0"}

\* the list a caller passes as patches=
CallerList == <<"gold-plugins">>

\* "default" is the one list object made by `patches: List[str] = []` when
\* the function is defined; "mine" is a list owned by the caller
InitHeap == [l \in {"default", "mine"} |-> IF l = "mine" THEN CallerList ELSE <<>>]

\* LLVM.__init__ with patches bound to the list named ref: the object keeps
\* the reference, and the automatic patch is appended to that same list
LLVMInit(version, compiler_rt, ref) ==
    /\ Len(objs) < MaxCtor
    /\ objs' = Append(objs, [version |-> version, compiler_rt |-> compiler_rt,
                             patches |-> ref])
    /\ heap' = IF compiler_rt /\ version = "4.0.0"
               THEN [heap EXCEPT ![ref] = Append(@, "compiler-rt-typefix")]
               ELSE heap
    /\ UNCHANGED <<roots, preinstalled, run, force, pc, order, idx, disk, cwd, ctx,
                   log, failed, failures, plain, last>>

\* LLVM(version, compiler_rt): no patches argument
ConstructDefault ==
    \E version \in CtorVersions, compiler_rt \in BOOLEAN :
       LLVMInit(version, compiler_rt, "default")

\* LLVM(version, compiler_rt, patches=mine)
ConstructWith ==
    \E version \in CtorVersions, compiler_rt \in BOOLEAN :
       LLVMInit(version, compiler_rt, "mine")

\* the configuration script before any run: nothing resolved, empty disk
CtorInit ==
    /\ roots = <<>>
    /\ preinstalled = "none"
    /\ run = 1
    /\ force = {}
    /\ pc = "construct"
    /\ order = <<>>
    /\ idx = 0
    /\ disk = {}
    /\ cwd = LaunchDir
    /\ ctx = InitCtx
    /\ log = <<>>
    /\ failed = NoFailure
    /\ failures = 0
    /\ plain = TRUE
    /\ last = [pkg |-> "", stage |-> "", invoked |-> FALSE, probes |-> <<>>,
               starts |-> <<>>, left |-> LaunchDir, outcome |-> "",
               returned |-> FALSE, trace |-> <<>>]
    /\ heap = InitHeap
    /\ objs = <<>>

CtorNext ==
    \/ ConstructDefault
    \/ ConstructWith

CtorSpec == CtorInit /\ [][CtorNext]_vars

\* The executor positions the current directory on the package directory
\* before every probe and every stage, wherever the step before left it.
Position(p, c) == goto_rootdir(p)

\* no stage step yet
NoStep == [pkg |-> "", stage |-> "", invoked |-> FALSE, probes |-> <<>>,
           starts |-> <<>>, left |-> LaunchDir, outcome |-> "", returned |-> FALSE,
           trace |-> <<>>]

\* a stage skipped on its probe, evaluated in directory c
Skipped(p, stage, c) ==
    [NoStep EXCEPT !.pkg = ident(p), !.stage = stage, !.probes = <<c>>, !.left = c]

\* a stage invoked in directory c with result r: the probe before it (none
\* under a force flag), the stage and the directory it leaves, the probe
\* after it when it returned
Invoked(p, stage, c, r, outcome, trace) ==
    [pkg |-> ident(p), stage |-> stage, invoked |-> TRUE,
     probes |-> (IF stage \in force THEN <<>> ELSE <<c>>)
                \o (IF r.ok THEN <<Position(p, r.cwd)>> ELSE <<>>),
     starts |-> <<c>>, left |-> r.cwd, outcome |-> outcome, returned |-> r.ok,
     trace |-> trace]

Init ==
    /\ roots \in RootChoices
    /\ preinstalled \in Preinstalled
    /\ run = 1
    /\ force \in ForceChoices
    /\ pc = "resolve"
    /\ order = <<>>
    /\ idx = 0
    /\ disk = {}
    /\ cwd = LaunchDir
    /\ ctx = InitCtx
    /\ log = <<>>
    /\ failed = NoFailure
    /\ failures = 0
    /\ plain = (force = {})
    /\ last = NoStep
    /\ heap = InitHeap
    /\ objs = <<>>

cur == order[idx]

\* The resolver runs before any stage; a cycle rejects the run.
ResolveStep ==
    /\ pc = "resolve"
    /\ LET r == Resolve(roots)
       IN /\ order' = IF r.cycle THEN <<>> ELSE r.order
          /\ pc' = IF r.cycle THEN "rejected"
                   ELSE IF r.order = <<>> THEN "done" ELSE "fetch"
          /\ idx' = IF r.cycle \/ r.order = <<>> THEN 0 ELSE 1
    /\ UNCHANGED <<roots, preinstalled, run, force, disk, cwd, ctx, log, failed,
                   failures, plain, last, heap, objs>>

\* variant that goes on whenever the stage returned, whatever the probe says
AdvanceWithoutRecheck(stage, r, probe, next) ==
    /\ disk' = r.disk
    /\ log' = Logged(log, cur, stage,
                     IF ~r.ok THEN "raised"
                     ELSE IF ~probe THEN "probe-false" ELSE "passed",
                     r.applied)
    /\ IF r.ok
       THEN /\ pc' = next
            /\ cwd' = Position(cur, r.cwd)
            /\ UNCHANGED <<failed, failures>>
       ELSE /\ pc' = "stopped"
            /\ cwd' = r.cwd
            /\ failed' = [pkg |-> ident(cur), stage |-> stage]
            /\ failures' = failures + 1
    /\ UNCHANGED <<roots, preinstalled, run, force, order, idx, ctx, plain, heap, objs>>

\* A stage that is invoked: the stage runs from the package directory, the
\* probe is evaluated again from the package directory, and a stage that
\* raised or left its probe false stops the run.
Advance(stage, r, probe, next) ==
    /\ disk' = r.disk
    /\ log' = Logged(log, cur, stage,
                     IF ~r.ok THEN "raised"
                     ELSE IF ~probe THEN "probe-false" ELSE "passed",
                     r.applied)
    /\ IF r.ok /\ probe
       THEN /\ pc' = next
            /\ cwd' = Position(cur, r.cwd)
            /\ UNCHANGED <<failed, failures>>
       ELSE /\ pc' = "stopped"
            /\ cwd' = IF r.ok THEN Position(cur, r.cwd) ELSE r.cwd
            /\ failed' = [pkg |-> ident(cur), stage |-> stage]
            /\ failures' = failures + 1
    /\ UNCHANGED <<roots, preinstalled, run, force, order, idx, ctx, plain, heap, objs>>

Skip(next) ==
    /\ pc' = next
    /\ cwd' = Position(cur, cwd)
    /\ last' = Skipped(cur, pc, Position(cur, cwd))
    /\ UNCHANGED <<roots, preinstalled, run, force, order, idx, disk, ctx, log,
                   failed, failures, plain, heap, objs>>

FetchSkip ==
    /\ pc = "fetch"
    /\ "fetch" \notin force
    /\ is_fetched(cur, disk, Position(cur, cwd))
    /\ Skip("build")

FetchRun ==
    /\ pc = "fetch"
    /\ "fetch" \in force \/ ~is_fetched(cur, disk, Position(cur, cwd))
    /\ \E outcome \in Outcomes("fetch") :
          /\ outcome # "ok" => failures < MaxFailures
          /\ LET c == Position(cur, cwd)
                 r == fetch(cur, disk, c, outcome)
             IN /\ Advance("fetch", r,
                           is_fetched(cur, r.disk, Position(cur, r.cwd)), "build")
                /\ last' = Invoked(cur, "fetch", c, r, outcome, <<>>)

BuildSkip ==
    /\ pc = "build"
    /\ "build" \notin force
    /\ is_built(cur, disk, Position(cur, cwd))
    /\ Skip("install")

BuildRun ==
    /\ pc = "build"
    /\ "build" \in force \/ ~is_built(cur, disk, Position(cur, cwd))
    /\ \E outcome \in Outcomes("build") :
          /\ outcome # "ok" => failures < MaxFailures
          /\ LET c == Position(cur, cwd)
                 r == build(cur, disk, c, outcome)
             IN /\ Advance("build", r,
                           is_built(cur, r.disk, Position(cur, r.cwd)), "install")
                /\ last' = Invoked(cur, "build", c, r, outcome,
                                   build_trace(cur, disk, c, outcome))

InstallSkip ==
    /\ pc = "install"
    /\ "install" \notin force
    /\ is_installed(cur, disk, Position(cur, cwd), preinstalled)
    /\ Skip("configure")

InstallRun ==
    /\ pc = "install"
    /\ "install" \in force \/ ~is_installed(cur, disk, Position(cur, cwd), preinstalled)
    /\ \E outcome \in Outcomes("install") :
          /\ outcome # "ok" => failures < MaxFailures
          /\ LET c == Position(cur, cwd)
                 r == install(cur, disk, c, outcome)
             IN /\ Advance("install", r,
                           is_installed(cur, r.disk, Position(cur, r.cwd), preinstalled),
                           "configure")
                /\ last' = Invoked(cur, "install", c, r, outcome, <<>>)

\* configure of the current package, once, after its install step
ConfigureStep ==
    /\ pc = "configure"
    /\ ctx' = configure(cur, ctx)
    /\ log' = log \o [i \in 1..Len(ConfigureCalls(cur)) |->
                        Entry(ConfigureCalls(cur)[i], "configure", ident(cur))]
    /\ cwd' = Position(cur, cwd)
    /\ last' = NoStep
    /\ IF idx < Len(order)
       THEN idx' = idx + 1 /\ pc' = "fetch"
       ELSE idx' = idx /\ pc' = "done"
    /\ UNCHANGED <<roots, preinstalled, run, force, order, disk, failed, failures,
                   plain, heap, objs>>

\* The pipeline is run again over the same disk, with a fresh context.
StartRun ==
    /\ pc \in {"done", "stopped"}
    /\ run < MaxRuns
    /\ run' = run + 1
    /\ force' \in ForceChoices
    /\ plain' = (plain /\ pc = "done" /\ force' = {})
    /\ pc' = "resolve"
    /\ order' = <<>>
    /\ idx' = 0
    /\ cwd' = LaunchDir
    /\ ctx' = InitCtx
    /\ log' = <<>>
    /\ failed' = NoFailure
    /\ last' = NoStep
    /\ UNCHANGED <<roots, preinstalled, disk, failures, heap, objs>>

Next ==
    \/ ResolveStep
    \/ FetchSkip
    \/ FetchRun
    \/ BuildSkip
    \/ BuildRun
    \/ InstallSkip
    \/ InstallRun
    \/ ConfigureStep
    \/ StartRun

Spec == Init /\ [][Next]_vars

(***************************************************************************)
(* Vocabulary of the properties                                            *)
(***************************************************************************)
IsPrefix(a, b) == Len(a) <= Len(b) /\ \A i \in 1..Len(a) : a[i] = b[i]

StageOps == {"fetch", "build", "install"}

\* number of log entries of operation op on the package directory id
Count(id, op) == Cardinality({i \in 1..Len(log) : log[i].pkg = id /\ log[i].op = op})

Idents(ps) == {ident(ps[i]) : i \in 1..Len(ps)}

\* identifiers of the packages reachable from the packages ps over dependencies()
RECURSIVE Reach(_, _)
Reach(ps, acc) ==
    IF ps = <<>> THEN acc
    ELSE IF ident(Head(ps)) \in acc THEN Reach(Tail(ps), acc)
    ELSE Reach(Tail(ps) \o dependencies(Head(ps)), acc \cup {ident(Head(ps))})

\* identifiers of the direct and transitive dependencies of p
DepIdents(p) == Reach(dependencies(p), {})

\* position of the package directory id in the resolved order, 0 when absent
Pos(id) == IF \E i \in 1..Len(order) : ident(order[i]) = id
           THEN CHOOSE i \in 1..Len(order) : ident(order[i]) = id
           ELSE 0

(***************************************************************************)
(* C1 -- idempotence of the pipeline                                       *)
(***************************************************************************)
\* C1: when the pipeline is run twice in succession without force flags (the
\* first run having completed), the second run invokes no fetch, build or
\* install of any package, and in each such run every package of the order
\* has its configure invoked exactly once.
C1_SecondRunIsNoop ==
    /\ (run >= 2 /\ plain) => \A i \in 1..Len(log) : log[i].op \notin StageOps
    /\ (plain /\ pc = "done") =>
          \A i \in 1..Len(order) : Count(ident(order[i]), "configure") = 1

(***************************************************************************)
(* C2 -- configure only appends                                            *)
(***************************************************************************)
\* C2: every configure step leaves each of cflags, cxxflags and ldflags with
\* its previous value as a prefix: no configure removes or resets flags
\* appended earlier in the run.
C2_ConfigureAdditive ==
    [][pc = "configure" =>
          /\ IsPrefix(ctx.cflags, ctx'.cflags)
          /\ IsPrefix(ctx.cxxflags, ctx'.cxxflags)
          /\ IsPrefix(ctx.ldflags, ctx'.ldflags)]_vars

(***************************************************************************)
(* C3 -- dependencies come first in the resolved order                     *)
(***************************************************************************)
\* Q is in the order, strictly before position i and nowhere from i on
StrictlyBefore(q, i) ==
    /\ \E j \in 1..(i - 1) : ident(order[j]) = q
    /\ \A j \in i..Len(order) : ident(order[j]) # q

\* C3: in the resolved order every direct or transitive dependency of a
\* package stands strictly before that package; LibUnwind and AutoMake
\* precede Gperftools, and BinUtils, CMake and Ninja precede LLVM.
C3_DependenciesFirst ==
    \A i \in 1..Len(order) :
       /\ \A q \in DepIdents(order[i]) : StrictlyBefore(q, i)
       /\ order[i].kind = "Gperftools" =>
             /\ StrictlyBefore("libunwind-" \o order[i].libunwind.version, i)
             /\ StrictlyBefore("automake-1.16.5", i)
       /\ order[i].kind = "LLVM" =>
             /\ StrictlyBefore("binutils-2.38-gold", i)
             /\ StrictlyBefore("cmake-3.28.6", i)
             /\ StrictlyBefore("ninja-1.8.2", i)

\* a resolved order in which a package with two dependencies, one of them
\* also requested as a root, stands behind both
C3_Witness ==
    /\ pc = "fetch"
    /\ \E i \in 1..Len(order) :
          /\ order[i].kind = "Gperftools"
          /\ \E j \in 1..(i - 1) : order[j].kind = "LibUnwind"
          /\ \E j \in 1..(i - 1) : order[j].kind = "Tool"
    /\ \E i \in 1..Len(roots) : roots[i].kind = "LibUnwind"

(***************************************************************************)
(* C4 -- one node per identifier                                           *)
(***************************************************************************)
\* C4: a package appears exactly once in the resolved order however many
\* paths or roots lead to it, packages with the same identifier being one
\* node, and per run each identifier is fetched, built, installed and
\* configured at most once.
C4_OncePerIdentifier ==
    /\ \A i, j \in 1..Len(order) : ident(order[i]) = ident(order[j]) => i = j
    /\ pc \notin {"resolve", "rejected"} =>
          \A id \in Reach(roots, {}) : \E i \in 1..Len(order) : ident(order[i]) = id
    /\ \A i \in 1..Len(log) :
          log[i].op \in StageOps \cup {"configure"} => Count(log[i].pkg, log[i].op) <= 1

(***************************************************************************)
(* C5 -- configure once per package, after install                         *)
(***************************************************************************)
\* C5: in a run each package's configure is executed exactly once, after the
\* package's install step has been passed (run or skipped), also for a
\* package referenced by several dependents: LibUnwind's configure runs once
\* although Gperftools both depends on it and calls it.
C5_ConfigureExactlyOnce ==
    /\ \A i \in 1..Len(log) :
          log[i].op = "configure" =>
             /\ Count(log[i].pkg, "configure") = 1
             /\ Pos(log[i].pkg) \in 1..idx
    /\ pc = "done" =>
          \A i \in 1..Len(order) : Count(ident(order[i]), "configure") = 1
    /\ \A i \in 1..Len(order) :
          (i < idx \/ pc = "done") =>
             is_installed(order[i], disk, goto_rootdir(order[i]), preinstalled)

(***************************************************************************)
(* C6 -- a failed stage stops the package and everything behind it         *)
(***************************************************************************)
\* the executor's own configure call of the package directory id is logged
Through(id) == \E k \in 1..Len(log) : log[k] = Entry(id, "configure", id)

Untouched(id) == \A k \in 1..Len(log) : log[k].pkg # id

\* C6: once a stage of a package has raised or left its probe false, the run
\* is stopped and nothing but that stage's own patch applications follows it
\* in the run: no later stage or configure of the package or of any other
\* package, its dependents included.  Every package other than the one
\* being processed is through configure or untouched, unless the run
\* has stopped.
C6_FailureStops ==
    /\ \A k \in 1..Len(log) :
          (log[k].op \in StageOps /\ log[k].arg # "passed") =>
             /\ pc = "stopped"
             /\ failed = [pkg |-> log[k].pkg, stage |-> log[k].op]
             /\ \A j \in (k + 1)..Len(log) :
                   log[j].op = "patch" /\ log[j].pkg = log[k].pkg
    /\ pc # "stopped" =>
          \A i \in 1..Len(order) :
             \/ (i < idx \/ pc = "done") /\ Through(ident(order[i]))
             \/ (i > idx \/ pc = "fetch") /\ Untouched(ident(order[i]))
             \/ i = idx /\ pc \in {"build", "install", "configure"}

\* a build that returned without its artifact stopped the run while a
\* package that depends on the failed one was still waiting
C6_Witness ==
    /\ pc = "stopped"
    /\ failed.stage = "build"
    /\ \E k \in 1..Len(log) : log[k] = Entry(failed.pkg, "build", "probe-false")
    /\ \E i \in (idx + 1)..Len(order) :
          /\ failed.pkg \in DepIdents(order[i])
          /\ Untouched(ident(order[i]))

(***************************************************************************)
(* C7 -- a dependency cycle rejects the run                                *)
(***************************************************************************)
\* some package reachable from ps is among its own transitive dependencies
RECURSIVE HasCycle(_, _)
HasCycle(ps, visited) ==
    IF ps = <<>> THEN FALSE
    ELSE IF ident(Head(ps)) \in visited THEN HasCycle(Tail(ps), visited)
    ELSE \/ ident(Head(ps)) \in DepIdents(Head(ps))
         \/ HasCycle(Tail(ps) \o dependencies(Head(ps)),
                     visited \cup {ident(Head(ps))})

\* C7: when the packages reachable from the roots contain a dependency cycle,
\* the run is rejected as a configuration error before any fetch, build,
\* install or configure: nothing is logged, the disk and the context are
\* untouched, and the executor never leaves the resolver.
C7_CycleRejected ==
    HasCycle(roots, {}) =>
       /\ pc \in {"resolve", "rejected"}
       /\ log = <<>>
       /\ disk = {}
       /\ ctx = InitCtx
       /\ failed = NoFailure

\* a run rejected for a cycle that lies behind an acyclic root
C7_Witness ==
    /\ pc = "rejected"
    /\ HasCycle(roots, {})
    /\ ~HasCycle(<<roots[1]>>, {})

(***************************************************************************)
(* C8 -- link flags keep the processing order                              *)
(***************************************************************************)
\* the link flags the configure of p appends
LinkFlags(p) ==
    LET fl == configure(p, InitCtx).ldflags IN {fl[i] : i \in 1..Len(fl)}

\* C8: at the end of a run, for packages A processed before B, every link
\* flag appended by A is in ldflags and occurs before every link flag
\* appended by B.
C8_FlagOrder ==
    pc = "done" =>
       \A i, j \in 1..Len(order) :
          i < j =>
             \A fa \in LinkFlags(order[i]) : \A fb \in LinkFlags(order[j]) :
                \E a, b \in 1..Len(ctx.ldflags) :
                   a < b /\ ctx.ldflags[a] = fa /\ ctx.ldflags[b] = fb

(***************************************************************************)
(* C9 -- identifiers tell configurations apart                             *)
(***************************************************************************)
\* the constructor parameters that select a variant
Variant(p) ==
    CASE p.kind = "LLVM" ->
            <<p.version, p.compiler_rt, p.commit, p.lld, p.patches, p.build_flags>>
      [] p.kind = "LibUnwind" -> <<p.version, p.patches>>
      [] p.kind = "Gperftools" -> <<p.commit, p.patches>>
      [] OTHER -> <<p>>

\* C9: two requested packages that differ in kind or in a variant-affecting
\* constructor parameter have different identifiers.
C9_IdentifiersDistinct ==
    \A i, j \in 1..Len(roots) :
       (roots[i].kind # roots[j].kind \/ Variant(roots[i]) # Variant(roots[j]))
          => ident(roots[i]) # ident(roots[j])

(***************************************************************************)
(* C10 -- configure twice is configure once                                *)
(***************************************************************************)
\* C10: for every package of the order and the context reached, calling the
\* package's configure twice in succession leaves the context as calling it
\* once does.
C10_ConfigureIdempotent ==
    \A i \in 1..Len(order) :
       configure(order[i], configure(order[i], ctx)) = configure(order[i], ctx)

(***************************************************************************)
(* C11 -- probes stay true                                                 *)
(***************************************************************************)
\* C11: for every package, a lifecycle probe that reports true keeps
\* reporting true after every later step, within the run and in a later
\* run: no stage removes the on-disk marker of an earlier stage.
C11_ProbesMonotone ==
    [][\A i \in 1..Len(Resolve(roots).order) :
          LET p == Resolve(roots).order[i]
              root == goto_rootdir(p)
          IN /\ is_fetched(p, disk, root) => is_fetched(p, disk', root)
             /\ is_built(p, disk, root) => is_built(p, disk', root)
             /\ is_installed(p, disk, root, preinstalled)
                   => is_installed(p, disk', root, preinstalled)]_vars

Patched == {"LibUnwind", "Gperftools", "LLVM"}

PatchEvents(t) == SelectSeq(t, LAMBDA e : e.op = "patch")

\* C13: in every build invocation of a package with patches, the patches
\* handed to apply_patch are the declared ones in declared order, and every
\* command the build runs (autoreconf, configure, make, cmake) comes after
\* all of them.
C13_PatchesBeforeCompile ==
    last.invoked /\ last.stage = "build" /\ cur.kind \in Patched =>
       LET t == last.trace
       IN /\ [i \in 1..Len(PatchEvents(t)) |-> PatchEvents(t)[i].what] = cur.patches
          /\ \A i, j \in 1..Len(t) :
                t[i].op = "run" /\ t[j].op = "patch" => j < i

\* a build of an LLVM with two patches that went on to cmake
C13_Witness ==
    /\ last.invoked /\ last.stage = "build" /\ cur.kind = "LLVM"
    /\ Len(cur.patches) = 2
    /\ \E i \in 1..Len(last.trace) :
          last.trace[i].op = "run" /\ last.trace[i].what = "cmake --build"

(***************************************************************************)
(* C14                                                                     *)
(***************************************************************************)
PatchRefs(t) == [i \in 1..Len(PatchEvents(t)) |-> PatchEvents(t)[i].what]

\* C14: at the build step of a package whose is_built probe is true, the
\* force-rebuild flag makes the executor invoke build, and that build hands
\* every declared patch to apply_patch again; without the flag build is not
\* invoked, nothing is logged, no patch is applied and the disk is unchanged.
C14_ForceRebuild ==
    [][pc = "build" /\ is_built(cur, disk, goto_rootdir(cur)) =>
          IF "build" \in force
          THEN /\ last'.invoked /\ last'.stage = "build"
               /\ Len(log') > Len(log) /\ log'[Len(log) + 1].op = "build"
               /\ cur.kind \in Patched => PatchRefs(last'.trace) = cur.patches
          ELSE /\ ~last'.invoked
               /\ last'.trace = <<>>
               /\ log' = log
               /\ disk' = disk]_vars

\* second run over the tree the first run left, build forced, fetch not: the
\* build of an LLVM with patches ran without its probe and patched again
C14_Witness ==
    /\ run = 2 /\ failures = 0
    /\ "build" \in force /\ "fetch" \notin force
    /\ last.invoked /\ last.stage = "build" /\ last.returned
    /\ cur.kind = "LLVM"
    /\ Len(cur.patches) > 0 /\ PatchRefs(last.trace) = cur.patches
    /\ Len(last.probes) = 1

(***************************************************************************)
(* C15                                                                     *)
(***************************************************************************)
\* C15: a patch given with a target directory is applied in that directory
\* and nothing else moves: after every patch of a build the current directory
\* is the package's src, after the patch loop it is the package directory,
\* and the commands that follow run in the package's obj, where build ends.
C15_OverrideIsLocal ==
    last.invoked /\ last.stage = "build" /\ cur.kind \in Patched =>
       LET t == last.trace
           root == goto_rootdir(cur)
           src == chdir(root, "src")
       IN \A i \in 1..Len(t) :
             /\ t[i].op = "patch" =>
                   /\ t[i].after = src
                   /\ t[i].at = IF IsTuple(t[i].what)
                                THEN chdir(src, patch_dir(t[i].what)) ELSE src
             /\ t[i].op = "endloop" => t[i].at = src /\ t[i].after = root
             /\ t[i].op = "run" /\ t[i].what # "autoreconf" =>
                   t[i].at = chdir(root, "obj") /\ t[i].at = last.left

\* a build whose first patch was applied in src/llvm and whose second patch
\* was applied in src
C15_Witness ==
    /\ last.invoked /\ last.stage = "build" /\ cur.kind = "LLVM"
    /\ Len(last.trace) > 3
    /\ IsTuple(last.trace[1].what)
    /\ last.trace[1].at = chdir(chdir(goto_rootdir(cur), "src"), "llvm")
    /\ last.trace[2].op = "patch" /\ ~IsTuple(last.trace[2].what)
    /\ last.trace[4].op = "run"

(***************************************************************************)
(* C16                                                                     *)
(***************************************************************************)
AutoPatches(o) ==
    IF o.compiler_rt /\ o.version = "4.0.0" THEN <<"compiler-rt-typefix">> ELSE <<>>

\* C16: after any sequence of LLVM constructions, a package constructed
\* without a patches argument has an empty patch list, or exactly
\* <<"compiler-rt-typefix">> when it is 4.0.0 with compiler_rt, a package
\* constructed with the caller's list has that list plus its own automatic
\* patch, and the caller's list is what the caller made it.
C16_ConstructionIsLocal ==
    /\ \A i \in 1..Len(objs) :
          heap[objs[i].patches] =
             (IF objs[i].patches = "default" THEN <<>> ELSE CallerList)
                \o AutoPatches(objs[i])
    /\ heap["mine"] = CallerList

(***************************************************************************)
(* C17                                                                     *)
(***************************************************************************)
\* the packages whose install subtree build reads: Gperftools.build passes
\* libunwind's install/include and install/lib to configure, LLVM.build
\* passes binutils' install/include to cmake
ReadsInstallOf(p) ==
    CASE p.kind = "Gperftools" -> {p.libunwind}
      [] p.kind = "LLVM" -> {LLVMbinutils}
      [] OTHER -> {}

\* C17: whenever build is invoked for Gperftools or LLVM, the package whose
\* install subtree it reads comes earlier in the order and its is_installed
\* probe is true at that moment.
C17_DependencyInstalledAtBuild ==
    [][pc = "build" /\ last'.invoked =>
          \A dep \in ReadsInstallOf(cur) :
             /\ \E i \in 1..(idx - 1) : ident(order[i]) = ident(dep)
             /\ is_installed(dep, disk, goto_rootdir(dep), preinstalled)]_vars

\* Gperftools.build was invoked and returned, with libunwind installed
C17_Witness ==
    /\ last.invoked /\ last.stage = "build" /\ last.returned
    /\ cur.kind = "Gperftools"
    /\ is_installed(cur.libunwind, disk, goto_rootdir(cur.libunwind), preinstalled)

(***************************************************************************)
(* C18                                                                     *)
(***************************************************************************)
\* llvm-config exits with status 0 and prints the version of p
PreinstalledMatches(p) == preinstalled # "none" /\ preinstalled = p.version

\* C18: for every LLVM package, is_installed is true exactly when
\* install/bin/llvm-config exists in the package directory, or the patch list
\* is empty and llvm-config succeeds and prints the package's version.  At
\* the install step a matching toolchain makes the executor skip install for
\* a package without patches; a package with patches is skipped only on its
\* own install tree; after a failing or mismatching llvm-config the install
\* that succeeds lets the run go on.
C18_PreinstalledShortCircuit ==
    /\ \A i \in 1..Len(order) :
          order[i].kind = "LLVM" =>
             LET p == order[i]
                 root == goto_rootdir(p)
             IN is_installed(p, disk, root, preinstalled)
                   <=> \/ Exists(disk, root, "install/bin/llvm-config")
                       \/ p.patches = <<>> /\ PreinstalledMatches(p)
    /\ last.stage = "install" /\ cur.kind = "LLVM" =>
          /\ "install" \notin force /\ cur.patches = <<>> /\ PreinstalledMatches(cur)
                => ~last.invoked /\ pc = "configure"
          /\ cur.patches # <<>> /\ ~last.invoked
                => Exists(disk, goto_rootdir(cur), "install/bin/llvm-config")
          /\ last.invoked /\ last.outcome = "ok" => pc = "configure"

\* install of an LLVM without patches was skipped on the preinstalled
\* toolchain alone: the package has no install tree
C18_Witness ==
    /\ last.stage = "install" /\ ~last.invoked
    /\ cur.kind = "LLVM" /\ cur.patches = <<>>
    /\ PreinstalledMatches(cur)
    /\ ~Exists(disk, goto_rootdir(cur), "install/bin/llvm-config")
    /\ pc = "configure"

====
